---- MODULE Spec2Model ----
(***************************************************************************)
(* Receipt scanner: the authentication session lifecycle of              *)
(* app/_layout.tsx (AuthProvider, AuthGate) and the staged-image queue    *)
(* and batch upload of app/(tabs)/index.tsx (HomeScreen).                  *)
(***************************************************************************)
EXTENDS Naturals, Integers, Sequences, FiniteSets, TLC

VARIABLES
    tenantId,       \* TENANT_ID of the build: a tenant string or Null
    discovery,      \* useAutoDiscovery: "pending", "doc" (loaded) or "failed"
    discoveryFetches, \* number of discovery metadata fetches issued
    request,        \* useAuthRequest: TRUE once the request object is non-null
    loading,        \* AuthProvider state `loading`
    authState,      \* AuthProvider state `authState`: NoSession or a session record
    store,          \* SecureStore item "accessToken": Null or a string
    autoStarted,    \* AuthGate state `autoStarted`
    promptOpen,     \* 0, or the number of the consent prompt that is open
    response,       \* useAuthRequest `response`: its type, "null" before any
    effects,        \* the runs of the response effect, one per prompt
    pendingDeletes, \* SecureStore.deleteItemAsync calls not yet completed
    nPrompts,       \* consent prompts opened so far
    autoSignIns,    \* signIn() calls made by the AuthGate effect
    autoPrompts,    \* consent prompts opened by those calls
    signOuts,       \* signOut() calls so far
    loadRead,       \* what SecureStore.getItemAsync gave the load effect
    signOutRejected, \* TRUE once a signOut() promise has rejected
    selectedImages, \* HomeScreen state `selectedImages`
    isUploading,    \* HomeScreen state `isUploading`
    uploadStatus,   \* HomeScreen state `uploadStatus`
    batches,        \* the running handleUploadAll calls
    lastBatch,      \* the handleUploadAll call that finished last
    removedAt       \* the index of the handleRemoveAt call just made, else -1

authVars == <<tenantId, discovery, discoveryFetches, request, loading, authState,
              store, autoStarted, promptOpen, response, effects, pendingDeletes,
              nPrompts, autoSignIns, autoPrompts, signOuts, loadRead,
              signOutRejected>>
homeVars == <<selectedImages, isUploading, uploadStatus>>
upVars == <<selectedImages, isUploading, uploadStatus, batches, lastBatch, removedAt>>
vars == <<tenantId, discovery, discoveryFetches, request, loading, authState,
          store, autoStarted, promptOpen, response, effects, pendingDeletes,
          nPrompts, autoSignIns, autoPrompts, signOuts, loadRead, signOutRejected,
          selectedImages, isUploading, uploadStatus, batches, lastBatch, removedAt>>

-----------------------------------------------------------------------------
(* Bounds *)

MaxPrompts == 2
MaxSignOuts == 2
MaxQueue == 2
MaxBatches == 2

-----------------------------------------------------------------------------
(* Values *)

Null == "null"

\* a JavaScript string used as a condition: null/undefined and "" are falsy
Truthy(s) == s # Null /\ s # ""

NoSession == [none |-> TRUE]

\* the access token the token endpoint issues for the n-th consent prompt
IssuedTokens == <<"tok1", "tok2", "tok3", "tok4">>

StoredAtStart == {Null, "", "abc123"}

\* the JSON bodies the Graph /me endpoint answers with: a profile, or an error
\* object that has none of the profile fields
ProfileBody ==
    [ok |-> [displayName |-> "Ada Lovelace", givenName |-> "Ada", surname |-> "Lovelace"],
     httpError |-> [displayName |-> Null, givenName |-> Null, surname |-> Null]]

RestoredSession(token) ==
    [accessToken |-> token, displayName |-> Null, givenName |-> Null, surname |-> Null]

SignedInSession(token, profile) ==
    [accessToken |-> token, displayName |-> profile.displayName,
     givenName |-> profile.givenName, surname |-> profile.surname]

\* a run of the response effect: where it is, and what each await gave
IdleEffect == [pc |-> "idle", exchange |-> "none", token |-> Null,
               profile |-> "none", save |-> "none"]

IdleBatch == [pc |-> "idle", items |-> <<>>, inflight |-> {}, sent |-> <<>>,
              successCount |-> 0, failed |-> <<>>, attached |-> FALSE]

NoBatch == [items |-> <<>>, sent |-> <<>>, succeeded |-> 0, failed |-> <<>>,
            thrown |-> FALSE, attached |-> FALSE, status |-> Null]

Uris == {"a.jpg", "b.jpg"}

-----------------------------------------------------------------------------
(* AuthGate: what is rendered *)

\* AuthGate renders its children (the Stack with HomeScreen)
AuthGateNoSessionCheck == ~loading
AuthGate == ~loading /\ authState # NoSession

HomeMounted == AuthGate

\* the "Sign in with Microsoft" button is rendered
SignInButton == ~loading /\ authState = NoSession

\* the issuer handed to useAutoDiscovery: without a tenant, the string `undefined`
Issuer(tenant) ==
    IF tenant # Null THEN "https://login.microsoftonline.com/" \o tenant \o "/v2.0"
    ELSE "undefined"

\* useAutoDiscovery fetches the metadata of whatever issuer string it is given
FetchesOnMount(tenant) == IF Issuer(tenant) # Null THEN 1 ELSE 0

Init ==
    /\ tenantId \in {Null, "tenant1"}
    /\ discovery = "pending"
    /\ discoveryFetches = FetchesOnMount(tenantId)
    /\ request = FALSE
    /\ loading = TRUE
    /\ authState = NoSession
    /\ store \in StoredAtStart
    /\ autoStarted = FALSE
    /\ promptOpen = 0
    /\ response = "null"
    /\ effects = [n \in 1..MaxPrompts |-> IdleEffect]
    /\ pendingDeletes = 0
    /\ nPrompts = 0
    /\ autoSignIns = 0
    /\ autoPrompts = 0
    /\ signOuts = 0
    /\ loadRead = "pending"
    /\ signOutRejected = FALSE
    /\ selectedImages = <<>>
    /\ isUploading = FALSE
    /\ uploadStatus = Null
    /\ batches = [b \in 1..MaxBatches |-> IdleBatch]
    /\ lastBatch = NoBatch
    /\ removedAt = -1

-----------------------------------------------------------------------------
(* What the user can do *)

\* the AuthGate effect is due (its condition holds): React runs it before it
\* handles the next input
EffectPendingNoFlag == ~loading /\ authState = NoSession
EffectPendingNoLoadingCheck == authState = NoSession /\ ~autoStarted
EffectPending == ~loading /\ authState = NoSession /\ ~autoStarted

\* the consent prompt is a modal browser over the application
UserCanAct == promptOpen = 0 /\ ~EffectPending

\* the commands the rendered surface offers
Available ==
    (IF SignInButton THEN {"signIn"} ELSE {})
    \cup (IF HomeMounted
          THEN {"signOut", "takePicture", "pickFromFiles"}
               \cup (IF Len(selectedImages) > 0
                     THEN {"removeAt"} \cup (IF isUploading THEN {} ELSE {"clearAll", "uploadAll"})
                     ELSE {})
          ELSE {})

-----------------------------------------------------------------------------
(* AuthProvider *)

\* useAutoDiscovery: the metadata fetch for the issuer completes
DiscoveryResolved ==
    /\ discovery = "pending"
    /\ \E outcome \in (IF tenantId = Null THEN {"failed"} ELSE {"doc", "failed"}) :
         discovery' = outcome
    /\ UNCHANGED <<tenantId, discoveryFetches, request, loading, authState, store,
                   autoStarted, promptOpen, response, effects, pendingDeletes,
                   nPrompts, autoSignIns, autoPrompts, signOuts>>
    /\ UNCHANGED <<loadRead, signOutRejected>>
    /\ UNCHANGED upVars

\* useAuthRequest: the request object is built once discovery is loaded
RequestReady ==
    /\ discovery = "doc"
    /\ ~request
    /\ request' = TRUE
    /\ UNCHANGED <<tenantId, discovery, discoveryFetches, loading, authState, store,
                   autoStarted, promptOpen, response, effects, pendingDeletes,
                   nPrompts, autoSignIns, autoPrompts, signOuts>>
    /\ UNCHANGED <<loadRead, signOutRejected>>
    /\ UNCHANGED upVars

\* the session the load effect sets from what SecureStore.getItemAsync gave
LoadedSessionNoEmptyCheck(read, stored, current) ==
    IF read = "value" /\ stored # Null THEN RestoredSession(stored) ELSE current
LoadedSession(read, stored, current) ==
    IF read = "value" /\ Truthy(stored) THEN RestoredSession(stored) ELSE current

\* `loading` after the load effect: its finally clause sets it false
LoadingAfterNoFinally(read) == read = "throws"
LoadingAfter(read) == FALSE

\* the load effect (run once, on mount): SecureStore.getItemAsync completes
\* (or throws)
LoadToken ==
    /\ loading
    /\ loadRead = "pending"
    /\ \E read \in {"value", "throws"} :
         /\ authState' = LoadedSession(read, store, authState)
         /\ loading' = LoadingAfter(read)
         /\ loadRead' = read
    /\ UNCHANGED signOutRejected
    /\ UNCHANGED <<tenantId, discovery, discoveryFetches, request, store,
                   autoStarted, promptOpen, response, effects, pendingDeletes,
                   nPrompts, autoSignIns, autoPrompts, signOuts>>
    /\ UNCHANGED upVars

\* signIn(): TRUE when the call opens a consent prompt
SignInOpens == request /\ promptOpen = 0

\* signIn(), as far as its first await: promptAsync opens the consent prompt
SignIn ==
    IF ~request
    THEN UNCHANGED <<promptOpen, response, nPrompts>>
    ELSE IF promptOpen = 0
         THEN /\ nPrompts' = nPrompts + 1
              /\ promptOpen' = nPrompts + 1
              /\ UNCHANGED response
         ELSE /\ response' = "locked"
              /\ UNCHANGED <<promptOpen, nPrompts>>

\* the user taps "Sign in with Microsoft"
SignInPress ==
    /\ "signIn" \in Available
    /\ UserCanAct
    /\ request => nPrompts < MaxPrompts
    /\ SignIn
    /\ UNCHANGED <<tenantId, discovery, discoveryFetches, request, loading, authState,
                   store, autoStarted, effects, pendingDeletes,
                   autoSignIns, autoPrompts, signOuts>>
    /\ UNCHANGED <<loadRead, signOutRejected>>
    /\ UNCHANGED upVars

\* the consent prompt returns: promptAsync resolves and sets `response`; the
\* response effect runs and, on success, issues exchangeCodeAsync.
\* StartsExchange: the response effect goes past its two early returns
StartsExchangeAnyType(type) == discovery = "doc"
StartsExchange(type) == type = "success" /\ discovery = "doc"

PromptResult ==
    /\ promptOpen # 0
    /\ \E type \in {"success", "cancel", "error"} :
         /\ response' = type
         /\ effects' = IF StartsExchange(type)
                       THEN [effects EXCEPT ![promptOpen].pc = "exchange"]
                       ELSE effects
    /\ promptOpen' = 0
    /\ UNCHANGED <<tenantId, discovery, discoveryFetches, request, loading, authState,
                   store, autoStarted, pendingDeletes,
                   nPrompts, autoSignIns, autoPrompts, signOuts>>
    /\ UNCHANGED <<loadRead, signOutRejected>>
    /\ UNCHANGED upVars

\* the response effect after exchangeCodeAsync: with an access token it goes on
\* to the profile fetch, without one (or on a throw) it ends
AccessToken(n, outcome) == IF outcome = "token" THEN IssuedTokens[n] ELSE ""

AfterExchangeNoTokenCheck(e, n, outcome) ==
    IF outcome # "throws"
    THEN [e EXCEPT !.pc = "profile", !.exchange = outcome,
                   !.token = AccessToken(n, outcome)]
    ELSE [e EXCEPT !.pc = "done", !.exchange = outcome]
AfterExchange(e, n, outcome) ==
    IF outcome # "throws" /\ Truthy(AccessToken(n, outcome))
    THEN [e EXCEPT !.pc = "profile", !.exchange = outcome,
                   !.token = AccessToken(n, outcome)]
    ELSE [e EXCEPT !.pc = "done", !.exchange = outcome]

ExchangeDone ==
    /\ \E n \in 1..MaxPrompts :
         /\ effects[n].pc = "exchange"
         /\ \E outcome \in {"token", "empty", "throws"} :
              effects' = [effects EXCEPT ![n] = AfterExchange(effects[n], n, outcome)]
    /\ UNCHANGED <<tenantId, discovery, discoveryFetches, request, loading, authState,
                   store, autoStarted, promptOpen, response, pendingDeletes,
                   nPrompts, autoSignIns, autoPrompts, signOuts>>
    /\ UNCHANGED <<loadRead, signOutRejected>>
    /\ UNCHANGED upVars

\* the response effect after fetch(/me) and profileRes.json(): a throw (no
\* response, or a body that is no JSON) ends it in the catch; otherwise it
\* issues SecureStore.setItemAsync
AfterProfile(e, outcome) ==
    IF outcome = "throws"
    THEN [e EXCEPT !.pc = "done", !.profile = outcome]
    ELSE [e EXCEPT !.pc = "save", !.profile = outcome]

ProfileDone ==
    /\ \E n \in 1..MaxPrompts :
         /\ effects[n].pc = "profile"
         /\ \E outcome \in {"ok", "httpError", "throws"} :
              effects' = [effects EXCEPT ![n] = AfterProfile(effects[n], outcome)]
    /\ UNCHANGED <<tenantId, discovery, discoveryFetches, request, loading, authState,
                   store, autoStarted, promptOpen, response, pendingDeletes,
                   nPrompts, autoSignIns, autoPrompts, signOuts>>
    /\ UNCHANGED <<loadRead, signOutRejected>>
    /\ UNCHANGED upVars

\* the response effect after SecureStore.setItemAsync: setAuthState, unless the
\* write threw
SaveDone ==
    /\ \E n \in 1..MaxPrompts :
         /\ effects[n].pc = "save"
         /\ \E outcome \in {"ok", "throws"} :
              /\ effects' = [effects EXCEPT ![n].pc = "done", ![n].save = outcome]
              /\ IF outcome = "ok"
                 THEN /\ store' = effects[n].token
                      /\ authState' = SignedInSession(effects[n].token,
                                                      ProfileBody[effects[n].profile])
                 ELSE UNCHANGED <<store, authState>>
    /\ UNCHANGED <<tenantId, discovery, discoveryFetches, request, loading,
                   autoStarted, promptOpen, response, pendingDeletes,
                   nPrompts, autoSignIns, autoPrompts, signOuts>>
    /\ UNCHANGED <<loadRead, signOutRejected>>
    /\ UNCHANGED upVars

\* AuthGate stops rendering its children: HomeScreen unmounts, its state is
\* gone, and a handleUploadAll call still running sets state of nothing
Unmounted(b) == [b EXCEPT !.attached = FALSE]

\* signOut(), called from the HomeScreen header
SignOutPress ==
    /\ "signOut" \in Available
    /\ UserCanAct
    /\ signOuts < MaxSignOuts
    /\ authState' = NoSession
    /\ pendingDeletes' = pendingDeletes + 1
    /\ signOuts' = signOuts + 1
    /\ selectedImages' = <<>>
    /\ isUploading' = FALSE
    /\ uploadStatus' = Null
    /\ batches' = [b \in 1..MaxBatches |-> Unmounted(batches[b])]
    /\ removedAt' = -1
    /\ UNCHANGED <<loadRead, signOutRejected>>
    /\ UNCHANGED <<tenantId, discovery, discoveryFetches, request, loading, store,
                   autoStarted, promptOpen, response, effects,
                   nPrompts, autoSignIns, autoPrompts, lastBatch>>

\* signOut awaits deleteItemAsync outside any try: a throw rejects its promise
SignOutRejects(before, outcome) == before \/ outcome = "throws"

\* SecureStore.deleteItemAsync completes (or throws)
DeleteDone ==
    /\ pendingDeletes > 0
    /\ pendingDeletes' = pendingDeletes - 1
    /\ \E outcome \in {"ok", "throws"} :
         /\ store' = IF outcome = "ok" THEN Null ELSE store
         /\ signOutRejected' = SignOutRejects(signOutRejected, outcome)
    /\ UNCHANGED loadRead
    /\ UNCHANGED <<tenantId, discovery, discoveryFetches, request, loading, authState,
                   autoStarted, promptOpen, response, effects,
                   nPrompts, autoSignIns, autoPrompts, signOuts>>
    /\ UNCHANGED upVars

-----------------------------------------------------------------------------
(* AuthGate effect *)

\* the effect of AuthGate: the one-shot automatic signIn()
AuthGateEffect ==
    /\ EffectPending
    /\ request => nPrompts < MaxPrompts
    /\ autoSignIns <= MaxSignOuts
    /\ autoStarted' = TRUE
    /\ autoSignIns' = autoSignIns + 1
    /\ autoPrompts' = IF SignInOpens THEN autoPrompts + 1 ELSE autoPrompts
    /\ SignIn
    /\ UNCHANGED <<tenantId, discovery, discoveryFetches, request, loading, authState,
                   store, effects, pendingDeletes, signOuts>>
    /\ UNCHANGED <<loadRead, signOutRejected>>
    /\ UNCHANGED upVars

-----------------------------------------------------------------------------
(* HomeScreen: the staged images *)

\* prev.filter((_, i) => i !== index), index counted from 0
RECURSIVE FilterOut(_, _, _)
FilterOut(prev, index, i) ==
    IF i > Len(prev) THEN <<>>
    ELSE (IF i - 1 # index THEN <<prev[i]>> ELSE <<>>) \o FilterOut(prev, index, i + 1)

\* the queue handleRemoveAt(index) sets: rows of the same uri are told apart
\* by position
FilteredByValue(prev, index) ==
    IF index + 1 \in 1..Len(prev)
    THEN SelectSeq(prev, LAMBDA uri : uri # prev[index + 1])
    ELSE prev
Filtered(prev, index) == FilterOut(prev, index, 1)

\* handleTakePicture: takePictureAsync gave a photo with a uri
TakePicture ==
    /\ "takePicture" \in Available
    /\ UserCanAct
    /\ Len(selectedImages) < MaxQueue
    /\ \E uri \in Uris : selectedImages' = Append(selectedImages, uri)
    /\ uploadStatus' = Null
    /\ removedAt' = -1
    /\ UNCHANGED <<isUploading, batches, lastBatch>>
    /\ UNCHANGED authVars

\* handlePickFromFiles: the picker gave one asset or several
PickFromFiles ==
    /\ "pickFromFiles" \in Available
    /\ UserCanAct
    /\ \E uris \in UNION {[1..k -> Uris] : k \in 1..2} :
         /\ Len(selectedImages) + Len(uris) <= MaxQueue
         /\ selectedImages' = selectedImages \o uris
    /\ uploadStatus' = Null
    /\ removedAt' = -1
    /\ UNCHANGED <<isUploading, batches, lastBatch>>
    /\ UNCHANGED authVars

\* handleRemoveAt(index), from a long press on a thumbnail
RemoveAt ==
    /\ "removeAt" \in Available
    /\ UserCanAct
    /\ \E index \in 0..MaxQueue :
         /\ selectedImages' = Filtered(selectedImages, index)
         /\ removedAt' = index
    /\ uploadStatus' = Null
    /\ UNCHANGED <<isUploading, batches, lastBatch>>
    /\ UNCHANGED authVars

\* handleClearAll
ClearAll ==
    /\ "clearAll" \in Available
    /\ UserCanAct
    /\ selectedImages' = <<>>
    /\ uploadStatus' = Null
    /\ removedAt' = -1
    /\ UNCHANGED <<isUploading, batches, lastBatch>>
    /\ UNCHANGED authVars

-----------------------------------------------------------------------------
(* HomeScreen: handleUploadAll *)

\* the requests in flight once the call has reached its first await
FirstRequestsAllAtOnce(items) == 1..Len(items)
FirstRequests(items) == {1}

\* the for loop after the response to item i: the next item, or none
NextRequests(items, i) == IF i < Len(items) THEN {i + 1} ELSE {}

\* what the call does with the response to an item: "ok" counts as a success,
\* a status that is not ok is logged and skipped, a throw leaves the loop
LoopEnds(items, i, outcome) == outcome = "throws" \/ i = Len(items)

\* the queue the call leaves when it ends
QueueAfterAnySuccess(queue, items, successCount, thrown) ==
    IF ~thrown /\ successCount > 0 THEN <<>> ELSE queue
QueueAfter(queue, items, successCount, thrown) ==
    IF ~thrown /\ successCount = Len(items) THEN <<>> ELSE queue

\* the uploading flag the call leaves when it ends: its finally clause resets it
UploadingAfterNoFinally(thrown) == thrown
UploadingAfter(thrown) == FALSE

\* the status line the call leaves when it ends
StatusAfter(items, successCount, thrown) ==
    IF thrown THEN "Upload failed"
    ELSE IF successCount = Len(items) THEN "Uploaded all"
    ELSE IF successCount = 0 THEN "All uploads failed"
    ELSE "Uploaded some"

\* the failures the call has logged, after the response to item i
FailedAfter(failed, i, outcome) ==
    IF outcome = "status500" THEN Append(failed, <<i, "HttpStatus">>)
    ELSE IF outcome = "throws" THEN Append(failed, <<i, "NetworkError">>)
    ELSE failed

\* the user taps "Upload n": the call runs as far as the first fetch
UploadAllPress ==
    /\ "uploadAll" \in Available
    /\ UserCanAct
    /\ Len(selectedImages) # 0
    /\ \E b \in 1..MaxBatches :
         /\ batches[b].pc = "idle"
         /\ \A c \in 1..(b - 1) : batches[c].pc # "idle"
         /\ batches' = [batches EXCEPT ![b] =
                [pc |-> "running", items |-> selectedImages,
                 inflight |-> FirstRequests(selectedImages),
                 sent |-> <<1>>, successCount |-> 0, failed |-> <<>>,
                 attached |-> TRUE]]
    /\ isUploading' = TRUE
    /\ uploadStatus' = Null
    /\ removedAt' = -1
    /\ UNCHANGED <<selectedImages, lastBatch>>
    /\ UNCHANGED authVars

\* a fetch of a running call completes: the loop goes on to the next fetch, or
\* the call ends and sets the status, the queue and the uploading flag
UploadResponse ==
    /\ \E b \in 1..MaxBatches : \E i \in batches[b].inflight :
       \E outcome \in {"ok", "status500", "throws"} :
         LET cur == batches[b]
             successCount == IF outcome = "ok" THEN cur.successCount + 1
                             ELSE cur.successCount
             failed == FailedAfter(cur.failed, i, outcome)
             thrown == outcome = "throws"
         IN  IF LoopEnds(cur.items, i, outcome)
             THEN /\ batches' = [batches EXCEPT ![b] = IdleBatch]
                  /\ lastBatch' = [items |-> cur.items, sent |-> cur.sent,
                                   succeeded |-> successCount, failed |-> failed,
                                   thrown |-> thrown, attached |-> cur.attached,
                                   status |-> StatusAfter(cur.items, successCount, thrown)]
                  /\ IF cur.attached
                     THEN /\ uploadStatus' = StatusAfter(cur.items, successCount, thrown)
                          /\ selectedImages' = QueueAfter(selectedImages, cur.items,
                                                          successCount, thrown)
                          /\ isUploading' = UploadingAfter(thrown)
                     ELSE UNCHANGED homeVars
             ELSE /\ batches' = [batches EXCEPT ![b] =
                       [cur EXCEPT !.inflight = (cur.inflight \ {i})
                                                  \cup NextRequests(cur.items, i),
                                   !.sent = cur.sent \o
                                            (IF i < Len(cur.items) THEN <<i + 1>> ELSE <<>>),
                                   !.successCount = successCount,
                                   !.failed = failed]]
                  /\ UNCHANGED <<homeVars, lastBatch>>
    /\ removedAt' = -1
    /\ UNCHANGED authVars

-----------------------------------------------------------------------------

Next ==
    \/ DiscoveryResolved
    \/ RequestReady
    \/ LoadToken
    \/ AuthGateEffect
    \/ SignInPress
    \/ PromptResult
    \/ ExchangeDone
    \/ ProfileDone
    \/ SaveDone
    \/ SignOutPress
    \/ DeleteDone
    \/ TakePicture
    \/ PickFromFiles
    \/ RemoveAt
    \/ ClearAll
    \/ UploadAllPress
    \/ UploadResponse

\* the whole application: the session lifecycle and HomeScreen together
Spec == Init /\ [][Next]_vars

\* the session lifecycle alone: HomeScreen mounts and unmounts, nothing is staged
AuthNext ==
    \/ DiscoveryResolved
    \/ RequestReady
    \/ LoadToken
    \/ AuthGateEffect
    \/ SignInPress
    \/ PromptResult
    \/ ExchangeDone
    \/ ProfileDone
    \/ SaveDone
    \/ SignOutPress
    \/ DeleteDone

AuthSpec == Init /\ [][AuthNext]_vars

\* HomeScreen from the moment a restored session has mounted it, until sign-out
HomeInit ==
    /\ tenantId = "tenant1"
    /\ discovery = "doc"
    /\ discoveryFetches = 1
    /\ request = TRUE
    /\ loading = FALSE
    /\ authState = RestoredSession("abc123")
    /\ store = "abc123"
    /\ autoStarted = FALSE
    /\ promptOpen = 0
    /\ response = "null"
    /\ effects = [n \in 1..MaxPrompts |-> IdleEffect]
    /\ pendingDeletes = 0
    /\ nPrompts = 0
    /\ autoSignIns = 0
    /\ autoPrompts = 0
    /\ signOuts = 0
    /\ loadRead = "value"
    /\ signOutRejected = FALSE
    /\ selectedImages = <<>>
    /\ isUploading = FALSE
    /\ uploadStatus = Null
    /\ batches = [b \in 1..MaxBatches |-> IdleBatch]
    /\ lastBatch = NoBatch
    /\ removedAt = -1

HomeNext ==
    \/ TakePicture
    \/ PickFromFiles
    \/ RemoveAt
    \/ ClearAll
    \/ UploadAllPress
    \/ UploadResponse
    \/ SignOutPress

HomeSpec == HomeInit /\ [][HomeNext]_vars

\* every fetch of a running call settles: it resolves or it rejects
HomeFairSpec == HomeSpec /\ WF_vars(UploadResponse)

\* the SecureStore.getItemAsync promise of the load effect settles
AuthFairSpec == AuthSpec /\ WF_vars(LoadToken)

-----------------------------------------------------------------------------
(* Session lifecycle: properties, checked under AuthSpec *)

HomeCommands == {"signOut", "takePicture", "pickFromFiles", "removeAt",
                 "clearAll", "uploadAll"}

\* C1: a command of the protected surface (HomeScreen) is offered only when
\* loading is over and authState holds a session with a non-empty access
\* token; while loading or without a session nothing but signIn is offered.
C1_GateProtects ==
    /\ (Available \cap HomeCommands # {}) =>
          (~loading /\ authState # NoSession /\ Truthy(authState.accessToken))
    /\ (loading \/ authState = NoSession) => Available \subseteq {"signIn"}

\* C1 witness: HomeScreen is offered to a session obtained through the consent
\* prompt after a sign-out
C1_Witness ==
    /\ "signOut" \in Available
    /\ signOuts > 0
    /\ authState # NoSession

\* C2: with an empty credential store at start the state is Unauthenticated
\* once loading is over, and the consent prompt has been opened automatically
\* exactly once as soon as the AuthGate effect has run (and not before).
C2_AutoPromptExactlyOnce ==
    (store = Null /\ signOuts = 0 /\ ~loading) =>
        /\ authState = NoSession
        /\ autoPrompts = (IF autoStarted THEN 1 ELSE 0)

\* C3, as claimed: once signOut has been called, no step opens a consent
\* prompt automatically.
C3_NoAutoSignInAfterAnySignOut ==
    [][signOuts > 0 => autoPrompts' = autoPrompts]_vars

\* C3, amended: once signOut has been called and the one-shot automatic
\* sign-in has already been made, no step makes another automatic signIn call
\* or opens a consent prompt automatically.
C3_NoAutoSignInOnceUsed ==
    [][(signOuts > 0 /\ autoSignIns >= 1) =>
          (autoSignIns' = autoSignIns /\ autoPrompts' = autoPrompts)]_vars

\* C3 witness: signed out, the sign-in button showing, the one-shot automatic
\* sign-in used up before
C3_Witness ==
    /\ signOuts > 0
    /\ autoSignIns = 1
    /\ autoStarted
    /\ SignInButton
    /\ promptOpen = 0

\* C9: a run of the response effect that ends with a non-empty access token
\* from the exchange and a failed profile fetch (an error answer or a throw)
\* leaves authState a session with that token and no profile field.
C9_ProfileFailureNotFatal ==
    [][\A n \in 1..MaxPrompts :
          (/\ effects[n].pc # "done"
           /\ effects'[n].pc = "done"
           /\ Truthy(effects'[n].token)
           /\ effects'[n].profile \in {"httpError", "throws"}
           /\ effects'[n].save # "throws")
          => authState' = RestoredSession(effects'[n].token)]_vars

\* C10: a run of the response effect whose SecureStore write throws still
\* leaves authState a session with the exchanged access token.
C10_SaveFailureNotFatal ==
    [][\A n \in 1..MaxPrompts :
          (/\ effects[n].pc = "save"
           /\ effects'[n].pc = "done"
           /\ effects'[n].save = "throws")
          => (authState' # NoSession /\ authState'.accessToken = effects[n].token)]_vars

-----------------------------------------------------------------------------
(* Batch upload: properties, checked under HomeSpec *)

OneToN(n) == [k \in 1..n |-> k]

IsPrefix(p, q) == Len(p) <= Len(q) /\ SubSeq(q, 1, Len(p)) = p

\* the step with which the handleUploadAll call in slot b ends
Ends(b) == batches[b].pc = "running" /\ batches'[b].pc = "idle"

\* C4: the call that finished last sent one request for every item of its
\* batch, in order, whatever the outcomes of the earlier items were.
C4_EveryItemAttempted ==
    lastBatch.sent = OneToN(Len(lastBatch.items))

\* C5: for the call that finished last, the successes plus the recorded
\* failures are the items of the batch.
C5_CountsAddUp ==
    lastBatch.succeeded + Len(lastBatch.failed) = Len(lastBatch.items)

\* C6: a running call has at most one request in flight, its requests were
\* sent in queue order, and the request in flight is for the item that follows
\* the ones whose outcome is recorded.
C6_Sequential ==
    \A b \in 1..MaxBatches :
        /\ Cardinality(batches[b].inflight) <= 1
        /\ batches[b].sent = OneToN(Len(batches[b].sent))
        /\ \A i \in batches[b].inflight :
              /\ i = Len(batches[b].sent)
              /\ batches[b].successCount + Len(batches[b].failed) = i - 1

\* C6 witness: the request for the second item is in flight, after a failure
\* of the first was recorded
C6_Witness ==
    \E b \in 1..MaxBatches :
        /\ batches[b].inflight = {2}
        /\ Len(batches[b].failed) = 1

\* C7: when a call ends with every item uploaded and the queue still starts
\* with the items of its batch, what it leaves in the queue is what was added
\* behind them while it ran.
C7_OnlyBatchItemsRemoved ==
    [][\A b \in 1..MaxBatches :
          (/\ Ends(b)
           /\ batches[b].attached
           /\ uploadStatus' = "Uploaded all"
           /\ IsPrefix(batches[b].items, selectedImages))
          => selectedImages' = SubSeq(selectedImages, Len(batches[b].items) + 1,
                                      Len(selectedImages))]_vars

\* C8: the step with which a call ends with an item not uploaded leaves the
\* queue as it is, with no request of the call in flight and nothing running
\* in its place.
C8_QueueKeptOnFailure ==
    [][\A b \in 1..MaxBatches :
          (Ends(b) /\ lastBatch'.succeeded < Len(lastBatch'.items))
          => /\ selectedImages' = selectedImages
             /\ batches'[b] = IdleBatch
             /\ \A c \in 1..MaxBatches : batches'[c].pc = "running" => batches[c].pc = "running"]_vars

\* C8 witness: a call has ended with one item uploaded and one failed, and the
\* two items are still staged, in order
C8_Witness ==
    /\ lastBatch.attached
    /\ Len(lastBatch.items) = 2
    /\ lastBatch.succeeded = 1
    /\ Len(lastBatch.failed) = 1
    /\ selectedImages = lastBatch.items
    /\ uploadStatus = "Uploaded some"
    /\ ~isUploading

-----------------------------------------------------------------------------
(* Session lifecycle: further properties, checked under AuthSpec *)

\* C11: the step that ends loading sets authState by the stored credential
\* alone: a session with exactly the stored token and no profile field when
\* the read gave a non-empty token, no session when it gave nothing, gave the
\* empty string, or threw.
C11_RestoreClassifies ==
    [][(loading /\ ~loading') =>
          authState' = (IF loadRead' = "value" /\ store # Null /\ store # ""
                        THEN [accessToken |-> store, displayName |-> Null,
                              givenName |-> Null, surname |-> Null]
                        ELSE NoSession)]_vars

\* C11 witness: loading is over and the session restored from the stored token
\* "abc123" is in place
C11_Witness ==
    /\ ~loading
    /\ loadRead = "value"
    /\ nPrompts = 0
    /\ authState # NoSession
    /\ authState.accessToken = "abc123"
    /\ authState.givenName = Null

\* C12: while loading, the AuthGate effect has made no signIn call and no
\* consent prompt is or was open; and a session restored at start stays
\* without any automatic signIn call as long as nobody signs out.
C12_NoAutoSignInWhileLoading ==
    /\ loading => (autoSignIns = 0 /\ autoPrompts = 0 /\ nPrompts = 0 /\ ~autoStarted)
    /\ (loadRead = "value" /\ signOuts = 0 /\ nPrompts = 0 /\ authState # NoSession)
          => autoSignIns = 0

\* C12 witness: the automatic sign-in has opened its prompt, after loading ended
C12_Witness ==
    /\ ~loading
    /\ autoSignIns = 1
    /\ autoPrompts = 1
    /\ promptOpen = 1

\* the step with which an authorization attempt fails: the prompt returns
\* without success, or the exchange throws or gives no access token
AttemptFails ==
    \/ promptOpen # 0 /\ promptOpen' = 0 /\ response' \in {"cancel", "error"}
    \/ \E n \in 1..MaxPrompts :
          /\ effects[n].pc = "exchange"
          /\ effects'[n].exchange \in {"empty", "throws"}

\* an authorization attempt has failed
AttemptFailed ==
    \/ response \in {"cancel", "error"}
    \/ \E n \in 1..MaxPrompts : effects[n].exchange \in {"empty", "throws"}

C14_SignOutSwallowsDeleteFailure ==
    /\ ~signOutRejected
    /\ (signOuts > 0 /\ nPrompts = 0) => authState = NoSession

\* C15: a session that is present has an access token that is neither absent
\* nor empty.
C15_SessionHasToken ==
    authState # NoSession =>
        (authState.accessToken # Null /\ authState.accessToken # "")

\* C15 witness: a session set by a run of the response effect
C15_Witness ==
    \E n \in 1..MaxPrompts :
        /\ effects[n].save = "ok"
        /\ authState # NoSession
        /\ authState.accessToken = effects[n].token

\* C17: without a tenant identifier no discovery fetch is issued, discovery
\* has failed, the request never becomes ready and no prompt opens.
C17_NoFetchWithoutTenant ==
    tenantId = Null =>
        (discoveryFetches = 0 /\ ~request /\ nPrompts = 0)

\* no SecureStore write or delete is under way
NoStoreOperation ==
    /\ pendingDeletes = 0
    /\ \A n \in 1..MaxPrompts : effects[n].pc # "save"

\* no SecureStore write or delete has failed
NoStoreFailure ==
    /\ ~signOutRejected
    /\ \A n \in 1..MaxPrompts : effects[n].save # "throws"

\* C18: as long as no store operation has failed: with a session and no store
\* operation under way the store holds the session's access token; and with
\* no session after a signOut, and no store operation under way, it holds
\* none. (Stated for the interleavings of operations that succeed.)
C18_StoreMatchesSession ==
    (NoStoreFailure /\ NoStoreOperation /\ ~loading) =>
        /\ authState # NoSession => store = authState.accessToken
        /\ (authState = NoSession /\ signOuts > 0) => store = Null

-----------------------------------------------------------------------------
(* HomeScreen: further properties, checked under HomeSpec and HomeFairSpec *)

\* handleRemoveAt(index), said without the filter: nothing for an index
\* outside the queue, else the queue without the one row at index
WithoutRow(queue, index) ==
    IF index < 0 \/ index >= Len(queue) THEN queue
    ELSE SubSeq(queue, 1, index) \o SubSeq(queue, index + 2, Len(queue))

Starts(b) == batches[b].pc = "idle" /\ batches'[b].pc = "running"

\* C19: a running call ends; the step that ends a call of the mounted screen
\* resets the uploading flag and sets a status, whatever the outcomes; no call
\* starts on an empty queue or while the flag is set; and while the flag is
\* set neither Clear nor Upload is offered.
C19_UploadTerminates ==
    /\ \A b \in 1..MaxBatches :
          (batches[b].pc = "running") ~> (batches[b].pc = "idle")
    /\ [][\A b \in 1..MaxBatches :
             /\ (Ends(b) /\ batches[b].attached) =>
                    (isUploading' = FALSE /\ uploadStatus' # Null)
             /\ Starts(b) => (~isUploading /\ Len(selectedImages) > 0
                              /\ batches'[b].items = selectedImages)]_vars
    /\ [](isUploading => ("clearAll" \notin Available /\ "uploadAll" \notin Available))

\* C19 witness: a call that ended on a thrown fetch has reset the flag and
\* set the status
C19_Witness ==
    /\ lastBatch.thrown
    /\ lastBatch.attached
    /\ ~isUploading
    /\ uploadStatus = "Upload failed"

-----------------------------------------------------------------------------
(* Startup: checked under AuthFairSpec *)

\* C20: loading becomes false, whatever the read of the store gave, and once
\* false it stays false.
C20_LoadingEnds ==
    /\ <>(~loading)
    /\ [][~loading => ~loading']_vars

\* C20 witness: loading has ended after a read that threw
C20_Witness ==
    /\ ~loading
    /\ loadRead = "throws"
    /\ authState = NoSession

====
